---- MODULE Spec2Model ----
(***************************************************************************)
(* A model of sec_form_d_puller.py: discovery of Form D filings (full-text *)
(* search with the quarterly master index as fallback), resolution and     *)
(* parsing of each filing's XML document, the funding-range filter, the    *)
(* webhook delivery and the run artifact.                                  *)
(*                                                                         *)
(* A Python str is a sequence of atoms: a character the code acts on (a     *)
(* separator, a space, a digit of a number) is an atom of its own, and a   *)
(* run of characters the code never looks inside is one atom. "" is <<>>.  *)
(***************************************************************************)
EXTENDS Integers, Sequences, FiniteSets, TLC

VARIABLES
    \* filter_by_funding_range applied to drawn inputs
    f_pc, f_filings, f_min, f_max, f_out,
    \* parse_form_d_xml applied to a drawn document
    x_pc, x_doc, x_filing, x_result,
    \* parse_full_index applied to a drawn index document and date range
    i_pc, i_doc, i_content, i_start, i_end, i_result,
    \* get_recent_form_d_filings against drawn responses of the two endpoints
    d_pc, d_now, d_efts, d_master, d_fault, d_out,
    \* get_filings_from_full_index over a drawn date range and quarter responses
    q_pc, q_start, q_end, q_master, q_out,
    \* fetch_form_d_details of one filing against drawn responses
    r_pc, r_filing, r_web, r_out,
    \* main: its position, its locals, the webhook target, and what the run did
    m_pc, m_url, raw_filings, m_i, detailed_filings, filtered_filings, success,
    artifact, m_posts, m_returned, m_rejected

filterVars == <<f_pc, f_filings, f_min, f_max, f_out>>
xmlVars == <<x_pc, x_doc, x_filing, x_result>>

indexVars == <<i_pc, i_doc, i_content, i_start, i_end, i_result>>

discVars == <<d_pc, d_now, d_efts, d_master, d_fault, d_out>>

quarterVars == <<q_pc, q_start, q_end, q_master, q_out>>

detailVars == <<r_pc, r_filing, r_web, r_out>>

mainVars == <<m_pc, m_url, raw_filings, m_i, detailed_filings, filtered_filings,
              success, artifact, m_posts, m_returned, m_rejected>>

vars == <<filterVars, xmlVars, indexVars, discVars, quarterVars, detailVars, mainVars>>

\* Each specification below exercises one part of the program and leaves the
\* variables of the other parts idle.
IdleFilter ==
    /\ f_pc = "idle" /\ f_filings = <<>> /\ f_min = 0 /\ f_max = 0 /\ f_out = <<>>

IdleXml ==
    /\ x_pc = "idle" /\ x_doc = <<>> /\ x_filing = <<>> /\ x_result = <<>>

IdleIndex ==
    /\ i_pc = "idle" /\ i_doc = <<>> /\ i_content = <<>>
    /\ i_start = <<>> /\ i_end = <<>> /\ i_result = <<>>

IdleDisc ==
    /\ d_pc = "idle" /\ d_now = <<>> /\ d_efts = <<>> /\ d_master = <<>>
    /\ d_fault = FALSE /\ d_out = <<>>

IdleQuarter ==
    /\ q_pc = "idle" /\ q_start = <<>> /\ q_end = <<>> /\ q_master = <<>>
    /\ q_out = <<>>

IdleDetail ==
    /\ r_pc = "idle" /\ r_filing = <<>> /\ r_web = <<>> /\ r_out = <<>>

IdleMain ==
    /\ m_pc = "idle" /\ m_url = "" /\ raw_filings = <<>> /\ m_i = 0
    /\ detailed_filings = <<>> /\ filtered_filings = <<>> /\ success = FALSE
    /\ artifact = <<>> /\ m_posts = <<>> /\ m_returned = 0 /\ m_rejected = FALSE

(***************************************************************************)
(* Bounds of the model                                                     *)
(***************************************************************************)
MaxRecs == 2
MaxAmtLen == 3
MaxLines == 2
MaxHits == 2
MaxSpanDays == 125

(***************************************************************************)
(* Program constants                                                       *)
(***************************************************************************)
LOOKBACK_DAYS == 1
MIN_OFFERING_AMOUNT == 2000000
MAX_OFFERING_AMOUNT == 6000000

(***************************************************************************)
(* OfferingFilter                                                          *)
(***************************************************************************)
EXCLUDED_INDUSTRIES ==
    { <<"Pooled Investment Fund">>, <<"Hedge Fund">>, <<"Private Equity Fund">>,
      <<"Venture Capital Fund">>, <<"Real Estate">>, <<"REITS & Finance">>,
      <<"Banking & Financial Services">>, <<"Insurance">>, <<"Oil & Gas">>,
      <<"Mining">> }

\* A plausible slip: the indefinite sentinel is left to the range check.
RECURSIVE filter_no_sentinel_check(_, _, _)
filter_no_sentinel_check(filings, min_amount, max_amount) ==
    IF filings = <<>> THEN <<>>
    ELSE LET filing == Head(filings)
             rest   == filter_no_sentinel_check(Tail(filings), min_amount, max_amount)
             amount == filing.total_offering_amount
         IN  IF ~(min_amount <= amount /\ amount <= max_amount) THEN rest
             ELSE IF filing.industry_group \in EXCLUDED_INDUSTRIES
                     \/ filing.investment_fund_type # <<>> THEN rest
             ELSE <<filing>> \o rest

RECURSIVE filter_by_funding_range(_, _, _)
filter_by_funding_range(filings, min_amount, max_amount) ==
    IF filings = <<>> THEN <<>>
    ELSE LET filing == Head(filings)
             rest   == filter_by_funding_range(Tail(filings), min_amount, max_amount)
             amount == filing.total_offering_amount
         IN  IF amount = -1 THEN rest
             ELSE IF ~(min_amount <= amount /\ amount <= max_amount) THEN rest
             ELSE IF filing.industry_group \in EXCLUDED_INDUSTRIES
                     \/ filing.investment_fund_type # <<>> THEN rest
             ELSE <<filing>> \o rest

\* Records the filter is tried on: amounts in units of one million dollars.
FilterAmounts == {-1, 0, 2, 6, 7}
FilterIndustries == {<<"Technology">>, <<"Real Estate">>, <<>>}
FilterFundTypes == {<<>>, <<"Venture Capital Fund">>}
FilterRecords ==
    [ total_offering_amount : FilterAmounts,
      industry_group : FilterIndustries,
      investment_fund_type : FilterFundTypes ]
FilterBounds == { <<2, 6>>, <<-1, 2>>, <<0, 7>>, <<6, 2>> }

SeqsUpTo(S, n) == UNION { [1..k -> S] : k \in 0..n }

InitFilter ==
    /\ f_pc = "input"
    /\ f_filings \in SeqsUpTo(FilterRecords, MaxRecs)
    /\ \E b \in FilterBounds : f_min = b[1] /\ f_max = b[2]
    /\ f_out = <<>>
    /\ IdleXml /\ IdleIndex /\ IdleDisc /\ IdleDetail /\ IdleMain /\ IdleQuarter

ApplyFilter ==
    /\ f_pc = "input"
    /\ f_out' = filter_by_funding_range(f_filings, f_min, f_max)
    /\ f_pc' = "done"
    /\ UNCHANGED <<f_filings, f_min, f_max>>
    /\ UNCHANGED <<xmlVars, indexVars, discVars, detailVars, mainVars, quarterVars>>

NextFilter == ApplyFilter

SpecFilter == InitFilter /\ [][NextFilter]_vars

\* C1: a record is in the output iff min <= amount <= max, amount # -1, its
\* industry group is not excluded and its fund type is empty; the output is the
\* input with exactly the other records removed, order and repetitions kept.
Included(r, lo, hi) ==
    /\ lo <= r.total_offering_amount /\ r.total_offering_amount <= hi
    /\ r.total_offering_amount # -1
    /\ r.industry_group \notin EXCLUDED_INDUSTRIES
    /\ r.investment_fund_type = <<>>

IncludedHere(r) == Included(r, f_min, f_max)

C1_FilterIffAndOrder ==
    f_pc = "done" => f_out = SelectSeq(f_filings, IncludedHere)

\* A run where the sentinel lies inside the range and is still dropped, next to
\* a record that is kept.
C1_Witness ==
    /\ f_pc = "done"
    /\ f_min = -1
    /\ Len(f_filings) = 2
    /\ f_filings[1].total_offering_amount = -1
    /\ f_filings[1].industry_group = <<"Technology">>
    /\ f_filings[1].investment_fund_type = <<>>
    /\ Len(f_out) = 1
    /\ f_out[1] = f_filings[2]

(***************************************************************************)
(* Text                                                                    *)
(***************************************************************************)
\* str.split(sep): the pieces of a text between occurrences of sep.
Split(text, sep) ==
    LET at == { k \in 1..Len(text) : text[k] = sep }
        n == Cardinality(at)
        \* the position of the j-th separator; 0 and Len+1 bracket the text
        Cut(j) == IF j = 0 THEN 0
                  ELSE IF j = n + 1 THEN Len(text) + 1
                  ELSE CHOOSE p \in at : Cardinality({ q \in at : q < p }) = j - 1
    IN  [ j \in 1..(n + 1) |-> SubSeq(text, Cut(j - 1) + 1, Cut(j) - 1) ]

Whitespace == {" ", "\t"}

RECURSIVE LStrip(_)
LStrip(text) ==
    IF text # <<>> /\ Head(text) \in Whitespace THEN LStrip(Tail(text)) ELSE text

RECURSIVE RStrip(_)
RStrip(text) ==
    IF text # <<>> /\ text[Len(text)] \in Whitespace
    THEN RStrip(SubSeq(text, 1, Len(text) - 1)) ELSE text

\* str.strip()
Strip(text) == RStrip(LStrip(text))

LowerChar(c) ==
    CASE c = "T" -> "t" [] c = "R" -> "r" [] c = "U" -> "u" [] c = "E" -> "e"
      [] c = "Y" -> "y" [] c = "S" -> "s" [] c = "N" -> "n" [] c = "O" -> "o"
      [] c = "F" -> "f" [] c = "A" -> "a" [] c = "L" -> "l"
      [] OTHER -> c

\* str.lower()
Lower(text) == [k \in 1..Len(text) |-> LowerChar(text[k])]

TRUE_TEXTS == { <<"t","r","u","e">>, <<"y","e","s">>, <<"1">> }

(***************************************************************************)
(* FormDParser                                                             *)
(***************************************************************************)
Digits == {"0", "1", "2", "3", "4", "5", "6", "7", "8", "9"}

DigitVal(c) ==
    CASE c = "0" -> 0 [] c = "1" -> 1 [] c = "2" -> 2 [] c = "3" -> 3
      [] c = "4" -> 4 [] c = "5" -> 5 [] c = "6" -> 6 [] c = "7" -> 7
      [] c = "8" -> 8 [] c = "9" -> 9

IsNumChar(c) == c \in Digits \cup {"."}

\* re.sub(r'[^\d.]', '', text)
CleanNumber(text) == SelectSeq(text, IsNumChar)

IsDot(c) == c = "."
IsDigit(c) == c \in Digits

\* float(clean) succeeds iff clean holds at least one digit and at most one dot
\* (clean holds nothing but digits and dots).
FloatParses(clean) ==
    /\ Len(SelectSeq(clean, IsDot)) <= 1
    /\ Len(SelectSeq(clean, IsDigit)) >= 1

RECURSIVE DecimalValue(_)
DecimalValue(digits) ==
    IF digits = <<>> THEN 0
    ELSE 10 * DecimalValue(SubSeq(digits, 1, Len(digits) - 1))
         + DigitVal(digits[Len(digits)])

\* int(float(clean)): the digits before the dot, the fraction truncated.
IntOfFloat(clean) == DecimalValue(Head(Split(clean, ".")))

\* find_text: the element's stripped text, "" when the element is absent or empty.
\* An element is modelled by its text (<<>> when absent or empty).
find_text(elemText) == IF elemText # <<>> THEN Strip(elemText) ELSE <<>>

\* A plausible slip: the sign is kept, so "-3" parses to -3.
find_number_signed(elemText) ==
    LET text == find_text(elemText) IN
    IF text # <<>>
    THEN LET clean == CleanNumber(text) IN
         IF FloatParses(clean)
         THEN IF Head(text) = "-" THEN 0 - IntOfFloat(clean) ELSE IntOfFloat(clean)
         ELSE 0
    ELSE 0

find_number(elemText) ==
    LET text == find_text(elemText) IN
    IF text # <<>>
    THEN LET clean == CleanNumber(text) IN
         IF FloatParses(clean) THEN IntOfFloat(clean) ELSE 0
    ELSE 0

\* total_offering after the indefinite rule (lines 373-381).
TotalOffering(doc) ==
    LET total_offering == find_number(doc.totalOfferingAmount) IN
    IF total_offering = 0
    THEN LET indefinite == find_text(doc.indefiniteSecuritiesIncluded) IN
         IF indefinite # <<>> /\ Lower(indefinite) \in TRUE_TEXTS
         THEN -1 ELSE total_offering
    ELSE total_offering

\* filing.get('filename','').split('/')[-2] if '/' in filename else ''
RecordAccession(filename) ==
    LET parts == Split(filename, "/") IN
    IF Len(parts) >= 2 THEN parts[Len(parts) - 1] ELSE <<>>

\* The OfferingRecord, <<>> for None (not well-formed XML). The fields kept are
\* those a later stage reads.
parse_form_d_xml(doc, filing) ==
    IF ~doc.wellformed THEN <<>>
    ELSE LET total_offering == TotalOffering(doc) IN
         << [ company_name |-> IF find_text(doc.entityName) # <<>>
                               THEN find_text(doc.entityName)
                               ELSE IF find_text(doc.issuerName) # <<>>
                               THEN find_text(doc.issuerName)
                               ELSE filing.company_name,
              cik |-> filing.cik,
              total_offering_amount |-> total_offering,
              is_indefinite |-> (total_offering = -1),
              industry_group |-> find_text(doc.industryGroupType),
              investment_fund_type |-> find_text(doc.investmentFundType),
              date_filed |-> filing.date_filed,
              form_type |-> filing.form_type,
              accession_number |-> RecordAccession(filing.filename) ] >>

AmountChars == {"0", "3", ".", ",", "-", " "}
AmountTexts == SeqsUpTo(AmountChars, MaxAmtLen)
FlagTexts ==
    { <<>>, <<"t","r","u","e">>, <<"T","R","U","E">>, <<"T","r","u","e">>,
      <<"Y","e","s">>, <<"1">>, <<" ","1"," ">>, <<"f","a","l","s","e">>,
      <<"0">>, <<"n","o">>, <<"t">> }

XmlDocs ==
    [ wellformed : BOOLEAN,
      entityName : {<<>>},
      issuerName : {<<"Acme Inc">>},
      totalOfferingAmount : AmountTexts,
      indefiniteSecuritiesIncluded : FlagTexts,
      industryGroupType : {<<" ", "Technology">>},
      investmentFundType : {<<>>} ]

SampleFilename ==
    <<"edgar", "/", "data", "/", "1234", "/", "0001234567-24-000001.txt">>

SampleFiling ==
    [ company_name |-> <<"ACME">>, form_type |-> <<"D">>, cik |-> <<"1234">>,
      date_filed |-> <<"2024-03-31">>, filename |-> SampleFilename,
      accession_number |-> <<"0001234567-24-000001">> ]

InitXml ==
    /\ x_pc = "input"
    /\ x_doc \in XmlDocs
    /\ x_filing = SampleFiling
    /\ x_result = <<>>
    /\ IdleFilter /\ IdleIndex /\ IdleDisc /\ IdleDetail /\ IdleMain /\ IdleQuarter

ParseXml ==
    /\ x_pc = "input"
    /\ x_result' = parse_form_d_xml(x_doc, x_filing)
    /\ x_pc' = "done"
    /\ UNCHANGED <<x_doc, x_filing>>
    /\ UNCHANGED <<filterVars, indexVars, discVars, detailVars, mainVars, quarterVars>>

NextXml == ParseXml

SpecXml == InitXml /\ [][NextXml]_vars

\* C7: in every record parse_form_d_xml returns, total_offering_amount is -1 or
\* >= 0; it is -1 exactly when the parsed totalOfferingAmount is 0 and the
\* indefiniteSecuritiesIncluded text is true/yes/1 in any letter case, and
\* otherwise it is the parsed amount; is_indefinite is true iff the amount is -1.
FlagIsTrue(text) ==
    \E t \in TRUE_TEXTS :
        /\ Len(Strip(text)) = Len(t)
        /\ \A k \in 1..Len(t) : LowerChar(Strip(text)[k]) = t[k]

C7_AmountSentinel ==
    (x_pc = "done" /\ x_result # <<>>) =>
        LET r == x_result[1]
            parsed == find_number(x_doc.totalOfferingAmount)
            flagged == parsed = 0 /\ FlagIsTrue(x_doc.indefiniteSecuritiesIncluded)
        IN  /\ r.total_offering_amount = -1 \/ r.total_offering_amount >= 0
            /\ parsed >= 0
            /\ (r.total_offering_amount = -1) <=> flagged
            /\ ~flagged => r.total_offering_amount = parsed
            /\ r.is_indefinite <=> (r.total_offering_amount = -1)

\* An unconvertible amount ("3.3." style or no digit) with the flag "TRUE".
C7_Witness ==
    /\ x_pc = "done"
    /\ x_result # <<>>
    /\ x_doc.totalOfferingAmount = <<"-", ".", ",">>
    /\ x_doc.indefiniteSecuritiesIncluded = <<"T","R","U","E">>
    /\ x_result[1].total_offering_amount = -1
    /\ x_result[1].is_indefinite

(***************************************************************************)
(* Dates                                                                   *)
(***************************************************************************)
\* A datetime is its calendar day, counted from 2024-01-01 = 0, and the seconds
\* since midnight.
IsLeap(y) == (y % 4 = 0 /\ y % 100 # 0) \/ y % 400 = 0

DaysInMonth(y, m) ==
    IF m = 2 THEN (IF IsLeap(y) THEN 29 ELSE 28)
    ELSE IF m \in {4, 6, 9, 11} THEN 30 ELSE 31

DaysInYear(y) == IF IsLeap(y) THEN 366 ELSE 365

RECURSIVE DaysBeforeMonth(_, _)
DaysBeforeMonth(y, m) ==
    IF m = 1 THEN 0 ELSE DaysBeforeMonth(y, m - 1) + DaysInMonth(y, m - 1)

RECURSIVE DaysBeforeYear(_)
DaysBeforeYear(y) ==
    IF y = 2024 THEN 0
    ELSE IF y > 2024 THEN DaysBeforeYear(y - 1) + DaysInYear(y - 1)
    ELSE DaysBeforeYear(y + 1) - DaysInYear(y)

Ordinal(y, m, d) == DaysBeforeYear(y) + DaysBeforeMonth(y, m) + (d - 1)

DateTime(day, secs) == [day |-> day, secs |-> secs]

\* datetime < datetime
DtLess(a, b) == a.day < b.day \/ (a.day = b.day /\ a.secs < b.secs)

\* Lines 54-55: end_date = datetime.now(); start_date = end_date - days_back days.
DateRange(now, days_back) ==
    [start |-> DateTime(now.day - days_back, now.secs), end |-> now]

\* The date texts of the model, as year, month and day of month.
DateFields(atom) ==
    CASE atom = "2024-03-30" -> <<2024, 3, 30>>
      [] atom = "2024-03-31" -> <<2024, 3, 31>>
      [] atom = "2024-04-01" -> <<2024, 4, 1>>
      [] atom = "2024-04-02" -> <<2024, 4, 2>>
      [] atom = "2024-02-30" -> <<2024, 2, 30>>
      [] atom = "2024-12-31" -> <<2024, 12, 31>>
      [] atom = "2025-02-14" -> <<2025, 2, 14>>
      [] atom = "2025-04-01" -> <<2025, 4, 1>>
      [] OTHER -> <<>>

\* datetime.strptime(text, '%Y-%m-%d'): <<>> for ValueError, else the datetime,
\* which is midnight of that day.
Strptime(text) ==
    IF Len(text) # 1 THEN <<>>
    ELSE LET f == DateFields(text[1]) IN
         IF f = <<>> THEN <<>>
         ELSE IF f[2] \notin 1..12 \/ f[3] \notin 1..DaysInMonth(f[1], f[2]) THEN <<>>
         ELSE << DateTime(Ordinal(f[1], f[2], f[3]), 0) >>

(***************************************************************************)
(* IndexParser                                                             *)
(***************************************************************************)
IsNotTxt(a) == a # ".txt"

\* filename.split('/')[-1].replace('.txt', '') if filename else ''
IndexAccession(filename) ==
    IF filename = <<>> THEN <<>>
    ELSE LET parts == Split(filename, "/") IN
         SelectSeq(parts[Len(parts)], IsNotTxt)

\* line.startswith('-----'): a run of dashes is one atom.
DashRun == "--------------------"
StartsWithDashes(line) == line # <<>> /\ Head(line) = DashRun

\* A plausible extension: a line without pipes is split at runs of two or more
\* spaces.
RECURSIVE SplitSpaces(_)
SplitSpaces(line) ==
    IF line = <<>> THEN << <<>> >>
    ELSE IF Len(line) >= 2 /\ line[1] = " " /\ line[2] = " "
         THEN << <<>> >> \o SplitSpaces(LStrip(line))
         ELSE LET rest == SplitSpaces(Tail(line))
              IN  << <<Head(line)>> \o Head(rest) >> \o Tail(rest)

IsPipe(a) == a = "|"

SplitLinePipesOrSpaces(line) ==
    IF SelectSeq(line, IsPipe) # <<>> THEN Split(line, "|") ELSE SplitSpaces(line)

\* parts = line.split('|')
SplitLine(line) == Split(line, "|")

FORM_TYPES == { <<"D">>, <<"D/A">> }

\* A plausible repair of the range test: calendar days are compared.
InRangeByDay(filing_date, start_date, end_date) ==
    ~(filing_date.day < start_date.day \/ filing_date.day > end_date.day)

\* not (filing_date < start_date or filing_date > end_date)
InRange(filing_date, start_date, end_date) ==
    ~(DtLess(filing_date, start_date) \/ DtLess(end_date, filing_date))

\* The body of the loop for one data line: <<>> when the line is skipped, else
\* the one FilingReference.
ParseIndexLine(line, start_date, end_date) ==
    LET parts == SplitLine(line) IN
    IF Len(parts) >= 5
    THEN LET cik == Strip(parts[1])
             company_name == Strip(parts[2])
             form_type == Strip(parts[3])
             date_filed == Strip(parts[4])
             filename == Strip(parts[5])
         IN  IF form_type \notin FORM_TYPES THEN <<>>
             ELSE LET filing_date == Strptime(date_filed) IN
                  IF filing_date = <<>> THEN <<>>
                  ELSE IF ~InRange(filing_date[1], start_date, end_date) THEN <<>>
                  ELSE << [ company_name |-> company_name,
                            form_type |-> form_type,
                            cik |-> cik,
                            date_filed |-> date_filed,
                            filename |-> filename,
                            accession_number |-> IndexAccession(filename) ] >>
    ELSE <<>>

RECURSIVE ParseIndexLines(_, _, _, _)
ParseIndexLines(lines, data_started, start_date, end_date) ==
    IF lines = <<>> THEN <<>>
    ELSE LET line == Head(lines) IN
         IF StartsWithDashes(line)
         THEN ParseIndexLines(Tail(lines), TRUE, start_date, end_date)
         ELSE IF ~data_started \/ Strip(line) = <<>>
         THEN ParseIndexLines(Tail(lines), data_started, start_date, end_date)
         ELSE ParseIndexLine(line, start_date, end_date)
              \o ParseIndexLines(Tail(lines), data_started, start_date, end_date)

parse_full_index(index_content, start_date, end_date) ==
    ParseIndexLines(Split(index_content, "\n"), FALSE, start_date, end_date)

\* ---- index documents the parser is tried on ----
\* An entry is the field texts of one data line; a document is rendered from
\* its entries with one separator throughout.
GoodCik == <<"1234">>
GoodName == <<"ACME", " ", "CORP">>
GoodFilename ==
    <<"edgar", "/", "data", "/", "1234", "/",
      "0001234567", "-", "24", "-", "000001", ".txt">>

Entry(cik, form, date, filename) ==
    << cik, GoodName, form, date, filename >>

IndexForms == { <<"D">>, <<"D/A">>, <<"10-K">> }
IndexDates ==
    { <<"2024-03-30">>, <<"2024-03-31">>, <<"2024-04-01">>, <<"2024-04-02">>,
      <<"2024-02-30">> }

IndexEntries ==
    { Entry(GoodCik, f, d, GoodFilename) : f \in IndexForms, d \in IndexDates }
    \cup { Entry(<<>>, <<"D">>, <<"2024-04-01">>, GoodFilename),
           Entry(GoodCik, <<"D">>, <<"2024-04-01">>, <<>>),
           << GoodCik, GoodName, <<"D">> >>,
           Entry(GoodCik, <<"D/A">>, <<"2024-04-01">>, GoodFilename) \o << <<"x">> >>,
           << >> }

Separators == { <<"|">>, <<" ", " ">> }

RECURSIVE Join(_, _)
Join(pieces, sep) ==
    IF pieces = <<>> THEN <<>>
    ELSE IF Len(pieces) = 1 THEN pieces[1]
    ELSE pieces[1] \o sep \o Join(Tail(pieces), sep)

HeaderEntry ==
    << <<"CIK">>, <<"Company Name">>, <<"Form Type">>, <<"Date Filed">>,
       <<"Filename">> >>

RenderLines(entries, sep) == [k \in 1..Len(entries) |-> Join(entries[k], sep)]

\* The document's text: a header line, the lines before the marker, the marker
\* (when the document has one) and the data lines.
Render(doc) ==
    Join( << Join(HeaderEntry, doc.sep) >>
          \o RenderLines(doc.before, doc.sep)
          \o (IF doc.marker THEN << <<DashRun>> >> ELSE <<>>)
          \o RenderLines(doc.entries, doc.sep),
          <<"\n">> )

IndexDocs ==
    [ sep : Separators,
      before : { <<>>, << Entry(GoodCik, <<"D">>, <<"2024-04-01">>, GoodFilename) >> },
      marker : BOOLEAN,
      entries : SeqsUpTo(IndexEntries, MaxLines) ]

\* datetime.now() of the run: 2024-04-01, at midnight or at 10:00.
NowChoices == { DateTime(Ordinal(2024, 4, 1), secs) : secs \in {0, 36000} }

InitIndex ==
    /\ i_pc = "input"
    /\ i_doc \in IndexDocs
    /\ i_content = Render(i_doc)
    /\ \E now \in NowChoices :
          /\ i_start = DateRange(now, LOOKBACK_DAYS).start
          /\ i_end = DateRange(now, LOOKBACK_DAYS).end
    /\ i_result = <<>>
    /\ IdleFilter /\ IdleXml /\ IdleDisc /\ IdleDetail /\ IdleMain /\ IdleQuarter

ParseIndex ==
    /\ i_pc = "input"
    /\ i_result' = parse_full_index(i_content, i_start, i_end)
    /\ i_pc' = "done"
    /\ UNCHANGED <<i_doc, i_content, i_start, i_end>>
    /\ UNCHANGED <<filterVars, xmlVars, discVars, detailVars, mainVars, quarterVars>>

NextIndex == ParseIndex

SpecIndex == InitIndex /\ [][NextIndex]_vars

\* The FilingReference a five-field entry stands for.
EntryRef(e) ==
    [ company_name |-> e[2], form_type |-> e[3], cik |-> e[1],
      date_filed |-> e[4], filename |-> e[5],
      accession_number |-> IF e[5] = <<>> THEN <<>>
                           ELSE <<"0001234567", "-", "24", "-", "000001">> ]

\* A Form D or D/A entry with five fields or more and a date that parses.
IsFormDEntry(e) ==
    /\ Len(e) >= 5
    /\ e[3] \in FORM_TYPES
    /\ Strptime(e[4]) # <<>>

EntryDay(e) == Strptime(e[4])[1].day

RECURSIVE RefsOf(_)
RefsOf(entries) ==
    IF entries = <<>> THEN <<>> ELSE <<EntryRef(Head(entries))>> \o RefsOf(Tail(entries))

KeptByCalendarDay(e) ==
    IsFormDEntry(e) /\ i_start.day <= EntryDay(e) /\ EntryDay(e) <= i_end.day

KeptByDateTime(e) ==
    IsFormDEntry(e) /\ InRange(Strptime(e[4])[1], i_start, i_end)

\* C6: on the master-index path the range is an inclusive calendar range: a
\* Form D or D/A entry filed on day d is kept iff date(start) <= d <= date(end),
\* also when start and end carry a time of day.
C6_InclusiveCalendarRange ==
    (i_pc = "done" /\ i_doc.sep = <<"|">> /\ i_doc.marker) =>
        i_result = RefsOf(SelectSeq(i_doc.entries, KeptByCalendarDay))

\* C8 as stated: a whitespace-delimited data line after the marker, of form type
\* D or D/A and with an in-range date, yields its FilingReference.
C8_WhitespaceFormatParsed ==
    (i_pc = "done" /\ i_doc.sep = <<" ", " ">> /\ i_doc.marker) =>
        \A k \in 1..Len(i_doc.entries) :
            KeptByDateTime(i_doc.entries[k]) =>
                \E j \in 1..Len(i_result) : i_result[j] = EntryRef(i_doc.entries[k])

\* C8 amended: only pipe-delimited lines are parsed. After the marker, a line of
\* five or more pipe-separated fields with form type D or D/A and a date inside
\* [start, end] yields the FilingReference of its first five fields; a document
\* whose fields are separated by runs of spaces yields nothing.
C8_PipeDelimitedOnly ==
    i_pc = "done" =>
        /\ (i_doc.sep = <<" ", " ">> \/ ~i_doc.marker) => i_result = <<>>
        /\ (i_doc.sep = <<"|">> /\ i_doc.marker) =>
              i_result = RefsOf(SelectSeq(i_doc.entries, KeptByDateTime))

C8_Witness ==
    /\ i_pc = "done"
    /\ i_doc.sep = <<" ", " ">>
    /\ i_doc.marker
    /\ Len(i_doc.entries) = 2
    /\ KeptByDateTime(i_doc.entries[1])
    /\ i_doc.entries[1][3] = <<"D/A">>
    /\ i_result = <<>>

(***************************************************************************)
(* FullTextSearchClient                                                    *)
(***************************************************************************)
\* A call's outcome is [raised, value]: raised is TRUE when the call ends in an
\* exception, and value is what it returns otherwise.
Raised == [raised |-> TRUE, value |-> <<>>]
Returned(v) == [raised |-> FALSE, value |-> v]

\* dict.get(key, default): an optional value is <<>> (key absent) or <<v>>.
Get(opt, default) == IF opt = <<>> THEN default ELSE opt[1]

IsColon(a) == a = ":"

\* Lines 115-139: the FilingReference of one hit.
HitRef(hit) ==
    [ company_name |-> IF hit.display_names # <<>> THEN hit.display_names[1]
                       ELSE <<"Unknown">>,
      form_type |-> Get(hit.form, <<"D">>),
      cik |-> IF hit.ciks # <<>> THEN hit.ciks[1] ELSE <<>>,
      date_filed |-> Get(hit.file_date, <<>>),
      filename |-> Get(hit.file_name, <<>>),
      accession_number |->
          LET file_id == Get(hit.id, <<>>) IN
          IF SelectSeq(file_id, IsColon) # <<>> THEN Split(file_id, ":")[1] ELSE <<>> ]

RefIsValid(r) == r.form_type \in FORM_TYPES /\ r.cik # <<>> /\ r.filename # <<>>

\* A plausible variant: hits that break the FilingReference invariant are dropped.
RECURSIVE MapHitsValidOnly(_)
MapHitsValidOnly(hits) ==
    IF hits = <<>> THEN <<>>
    ELSE (IF RefIsValid(HitRef(Head(hits))) THEN <<HitRef(Head(hits))>> ELSE <<>>)
         \o MapHitsValidOnly(Tail(hits))

\* Lines 114-139: one FilingReference per hit, in order.
MapHits(hits) == [k \in 1..Len(hits) |-> HitRef(hits[k])]

\* The response of the search endpoint is an exception of requests (kind
\* "exception"), or a status with a body that is JSON with a hit list or not.
get_filings_from_efts(response) ==
    IF response.kind = "exception" THEN Raised
    ELSE IF response.status # 200 THEN Raised
    ELSE IF ~response.json THEN Raised
    ELSE Returned(MapHits(response.hits))

(***************************************************************************)
(* MasterIndexFetcher                                                      *)
(***************************************************************************)
RECURSIVE YearOf(_, _)
\* The year holding day n, searched from year y (y is not after n's year).
YearOf(n, y) == IF n < DaysBeforeYear(y + 1) THEN y ELSE YearOf(n, y + 1)

RECURSIVE MonthOf(_, _, _)
MonthOf(n, y, m) ==
    IF n < DaysBeforeYear(y) + DaysBeforeMonth(y, m) + DaysInMonth(y, m) THEN m
    ELSE MonthOf(n, y, m + 1)

\* datetime.year and datetime.month of a day of 2020 or later.
Year(n) == YearOf(n, 2020)
Month(n) == MonthOf(n, Year(n), 1)

\* (year, (month - 1) // 3 + 1)
QuarterOf(dt) == << Year(dt.day), ((Month(dt.day) - 1) \div 3) + 1 >>

\* Lines 158-169: the quarters of start, start + 32 days, ... up to end, and
\* the quarter of end.
RECURSIVE SteppedQuarters(_, _)
SteppedQuarters(current, end_date) ==
    IF DtLess(end_date, current) THEN {}
    ELSE {QuarterOf(current)}
         \cup SteppedQuarters(DateTime(current.day + 32, current.secs), end_date)

\* A plausible slip: lines 166-169 are missing, so only the stepped dates count.
QuartersSteppedOnly(start_date, end_date) ==
    SteppedQuarters(start_date, end_date)

QuartersNeeded(start_date, end_date) ==
    SteppedQuarters(start_date, end_date) \cup {QuarterOf(end_date)}

QuarterLess(a, b) == a[1] < b[1] \/ (a[1] = b[1] /\ a[2] < b[2])

\* sorted(quarters_needed)
RECURSIVE Sorted(_)
Sorted(S) ==
    IF S = {} THEN <<>>
    ELSE LET least == CHOOSE a \in S : \A b \in S \ {a} : QuarterLess(a, b)
         IN  <<least>> \o Sorted(S \ {least})

\* Lines 173-192 for one quarter: what its response adds to filings.
QuarterFilings(response, start_date, end_date) ==
    IF response.kind = "exception" THEN <<>>
    ELSE IF response.status = 200
         THEN parse_full_index(response.text, start_date, end_date)
         ELSE <<>>

RECURSIVE FetchQuarters(_, _, _, _)
FetchQuarters(quarters, master, start_date, end_date) ==
    IF quarters = <<>> THEN <<>>
    ELSE QuarterFilings(master[Head(quarters)], start_date, end_date)
         \o FetchQuarters(Tail(quarters), master, start_date, end_date)

\* master maps a quarter to the response of its master.idx; fault is an
\* exception raised outside the per-quarter handler. The value holds the
\* filings and the quarters requested, in order.
get_filings_from_full_index(start_date, end_date, master, fault) ==
    IF fault THEN Raised
    ELSE LET quarters == Sorted(QuartersNeeded(start_date, end_date)) IN
         Returned([ filings |-> FetchQuarters(quarters, master, start_date, end_date),
                    requested |-> quarters ])

(***************************************************************************)
(* FilingDiscovery                                                         *)
(***************************************************************************)
Discovery(filings, efts_calls, index_calls, requested, raised) ==
    [ filings |-> filings, efts_calls |-> efts_calls, index_calls |-> index_calls,
      requested |-> requested, raised |-> raised ]

\* A plausible slip: the fallback call is not guarded, so its exception escapes.
get_recent_unguarded_fallback(now, days_back, efts_response, master, fault) ==
    LET range == DateRange(now, days_back)
        efts == get_filings_from_efts(efts_response)
        index == get_filings_from_full_index(range.start, range.end, master, fault)
    IN  IF ~efts.raised /\ efts.value # <<>>
        THEN Discovery(efts.value, 1, 0, <<>>, FALSE)
        ELSE IF index.raised THEN Discovery(<<>>, 1, 1, <<>>, TRUE)
        ELSE Discovery(index.value.filings, 1, 1, index.value.requested, FALSE)

\* The result and what the call did: the calls made to each path, the quarters
\* requested, and whether an exception left the function.
get_recent_form_d_filings(now, days_back, efts_response, master, fault) ==
    LET range == DateRange(now, days_back)
        efts == get_filings_from_efts(efts_response)
        index == get_filings_from_full_index(range.start, range.end, master, fault)
        \* filings as the search path leaves it: [] unless it returned
        after_efts == IF efts.raised THEN <<>> ELSE efts.value
    IN  IF ~efts.raised /\ efts.value # <<>>
        THEN Discovery(efts.value, 1, 0, <<>>, FALSE)
        ELSE IF index.raised THEN Discovery(after_efts, 1, 1, <<>>, FALSE)
        ELSE Discovery(index.value.filings, 1, 1, index.value.requested, FALSE)

\* ---- responses the discovery is tried on ----
Some(v) == <<v>>
GoodId == <<"0001234567", "-", "24", "-", "000001", ":", "primary_doc.xml">>

Hit(names, ciks, form, file_name, id) ==
    [ display_names |-> names, ciks |-> ciks, form |-> form,
      file_date |-> Some(<<"2024-04-01">>), file_name |-> file_name, id |-> id ]

Hits ==
    { Hit(<< <<"ACME">> >>, <<GoodCik>>, Some(<<"D">>), Some(GoodFilename), Some(GoodId)),
      Hit(<< <<"ACME">> >>, <<GoodCik>>, Some(<<"D/A">>), Some(GoodFilename), Some(GoodId)),
      Hit(<< <<"ACME">> >>, <<>>, Some(<<"D">>), Some(GoodFilename), Some(GoodId)),
      Hit(<< <<"ACME">> >>, <<GoodCik>>, Some(<<"10-K">>), Some(GoodFilename), Some(GoodId)),
      Hit(<< <<"ACME">> >>, <<GoodCik>>, Some(<<"D">>), <<>>, Some(GoodId)),
      Hit(<< <<"ACME">> >>, <<GoodCik>>, Some(<<"D">>), Some(<<"form_d", ".txt">>), Some(GoodId)),
      Hit(<<>>, <<GoodCik>>, <<>>, Some(GoodFilename), <<>>) }

EftsResponses ==
    { [kind |-> "exception", status |-> 0, json |-> FALSE, hits |-> <<>>],
      [kind |-> "response", status |-> 403, json |-> FALSE, hits |-> <<>>],
      [kind |-> "response", status |-> 200, json |-> FALSE, hits |-> <<>>] }
    \cup { [kind |-> "response", status |-> 200, json |-> TRUE, hits |-> h] :
             h \in SeqsUpTo(Hits, MaxHits) }

MasterEntries ==
    { Entry(GoodCik, <<"D">>, <<"2024-04-01">>, GoodFilename),
      Entry(GoodCik, <<"10-K">>, <<"2024-04-01">>, GoodFilename),
      Entry(<<>>, <<"D/A">>, <<"2024-04-01">>, GoodFilename),
      Entry(GoodCik, <<"D">>, <<"2024-04-01">>, <<>>) }

MasterDoc(entries) ==
    Render([sep |-> <<"|">>, before |-> <<>>, marker |-> TRUE, entries |-> entries])

MasterResponses ==
    { [kind |-> "exception", status |-> 0, text |-> <<>>],
      [kind |-> "response", status |-> 404, text |-> <<>>],
      [kind |-> "response", status |-> 200, text |-> MasterDoc(<<>>)] }
    \cup { [kind |-> "response", status |-> 200, text |-> MasterDoc(<<e>>)] :
             e \in MasterEntries }

\* The quarters a run of the model can ask for.
ModelQuarters == { <<2024, 1>>, <<2024, 2>> }

\* datetime.now() of the run: 2024-04-01 (the range starts in the first
\* quarter) or 2024-04-02, at midnight or at 10:00.
DiscNows ==
    { DateTime(Ordinal(2024, 4, d), secs) : d \in {1, 2}, secs \in {0, 36000} }

InitDisc ==
    /\ d_pc = "start"
    /\ d_now \in DiscNows
    /\ d_efts \in EftsResponses
    /\ d_master \in [ModelQuarters -> MasterResponses]
    /\ d_fault \in BOOLEAN
    /\ d_out = <<>>
    /\ IdleFilter /\ IdleXml /\ IdleIndex /\ IdleDetail /\ IdleMain /\ IdleQuarter

Discover ==
    /\ d_pc = "start"
    /\ d_out' = get_recent_form_d_filings(d_now, LOOKBACK_DAYS, d_efts, d_master, d_fault)
    /\ d_pc' = "done"
    /\ UNCHANGED <<d_now, d_efts, d_master, d_fault>>
    /\ UNCHANGED <<filterVars, xmlVars, indexVars, detailVars, mainVars, quarterVars>>

NextDisc == Discover

SpecDisc == InitDisc /\ [][NextDisc]_vars

\* What each path yields when called on its own.
SearchOutcome == get_filings_from_efts(d_efts)
IndexOutcome ==
    get_filings_from_full_index(DateRange(d_now, LOOKBACK_DAYS).start,
                                DateRange(d_now, LOOKBACK_DAYS).end, d_master, d_fault)
SearchSucceeded == ~SearchOutcome.raised /\ SearchOutcome.value # <<>>

\* C2: get_recent_form_d_filings never raises; a non-empty search result is
\* returned as it is and the master index is not consulted; when the search
\* raises or returns nothing the master-index path is called exactly once and
\* its result returned; when both fail the result is empty.
C2_FallbackPolicy ==
    d_pc = "done" =>
        /\ ~d_out.raised
        /\ d_out.efts_calls = 1
        /\ SearchSucceeded =>
              /\ d_out.filings = SearchOutcome.value
              /\ d_out.index_calls = 0
              /\ d_out.requested = <<>>
        /\ ~SearchSucceeded =>
              /\ d_out.index_calls = 1
              /\ ~IndexOutcome.raised => d_out.filings = IndexOutcome.value.filings
              /\ IndexOutcome.raised => d_out.filings = <<>>

\* The search fails with a status other than 200 and the fallback raises.
C2_Witness ==
    /\ d_pc = "done"
    /\ d_efts.kind = "response" /\ d_efts.status = 403
    /\ d_fault
    /\ d_out.index_calls = 1
    /\ d_out.filings = <<>>

\* C5 as stated: every FilingReference discovery returns has form_type D or
\* D/A, a cik and a filename.
C5_ReferencesValid ==
    d_pc = "done" =>
        \A k \in 1..Len(d_out.filings) : RefIsValid(d_out.filings[k])

\* C5 amended: on the master-index path every reference has form_type D or D/A
\* and a date that parses, while its cik and filename may be empty; on the
\* search path no hit is dropped, and each reference has the hit's form (D when
\* absent), its first CIK ("" when it has none) and its file name ("" when
\* absent).
C5_OnlyIndexFormChecked ==
    d_pc = "done" =>
        /\ d_out.index_calls = 1 =>
              \A k \in 1..Len(d_out.filings) :
                  /\ d_out.filings[k].form_type \in FORM_TYPES
                  /\ Strptime(d_out.filings[k].date_filed) # <<>>
        /\ d_out.index_calls = 0 =>
              /\ Len(d_out.filings) = Len(d_efts.hits)
              /\ \A k \in 1..Len(d_out.filings) :
                    LET r == d_out.filings[k]
                        h == d_efts.hits[k]
                    IN  /\ r.form_type = (IF h.form = <<>> THEN <<"D">> ELSE h.form[1])
                        /\ r.cik = (IF h.ciks = <<>> THEN <<>> ELSE h.ciks[1])
                        /\ r.filename = (IF h.file_name = <<>> THEN <<>> ELSE h.file_name[1])

\* The search path returns a reference without a cik next to one with form 10-K.
C5_Witness ==
    /\ d_pc = "done"
    /\ d_out.index_calls = 0
    /\ Len(d_out.filings) = 2
    /\ d_out.filings[1].cik = <<>>
    /\ d_out.filings[2].form_type = <<"10-K">>

\* ---- date ranges and quarter responses the fetcher is tried on ----
\* The quarters a range of the model can touch: the last of 2024 and the first
\* two of 2025 (the first quarter of 2025 has 90 days, the fewest a quarter has).
FetchQuarterWindow == { <<2024, 4>>, <<2025, 1>>, <<2025, 2>> }

\* A filing date inside each quarter.
QuarterDate(q) ==
    IF q = <<2024, 4>> THEN <<"2024-12-31">>
    ELSE IF q = <<2025, 1>> THEN <<"2025-02-14">>
    ELSE <<"2025-04-01">>

\* What the server answers for the master.idx of quarter q: a failed request, a
\* status other than 200, or an index with one Form D of the quarter.
QuarterResponse(q, answer) ==
    IF answer = "exception" THEN [kind |-> "exception", status |-> 0, text |-> <<>>]
    ELSE IF answer = "404" THEN [kind |-> "response", status |-> 404, text |-> <<>>]
    ELSE [kind |-> "response", status |-> 200,
          text |-> MasterDoc(<< Entry(GoodCik, <<"D">>, QuarterDate(q), GoodFilename) >>)]

\* In one run the quarters that do not answer 200 fail the same way.
QuarterMasters ==
    { [q \in FetchQuarterWindow |-> QuarterResponse(q, answers[q])] :
        answers \in UNION { [FetchQuarterWindow -> {"200", failure}] :
                            failure \in {"exception", "404"} } }

\* start_date runs over December 2024 and the first day of 2025, so that the
\* 32-day steps meet the quarter boundaries at every offset.
FirstStartDay == Ordinal(2024, 12, 1)
LastStartDay == Ordinal(2025, 1, 1)

\* Times of day of datetime.now(): midnight and 10:00. Lines 54-55 give start
\* and end the same time of day.
DayTimes == {0, 36000}

InitQuarter ==
    /\ q_pc = "start"
    /\ q_start \in { DateTime(d, secs) : d \in FirstStartDay..LastStartDay, secs \in DayTimes }
    /\ q_end \in { DateTime(q_start.day + n, q_start.secs) : n \in 0..MaxSpanDays }
    /\ q_master \in QuarterMasters
    /\ q_out = <<>>
    /\ IdleFilter /\ IdleXml /\ IdleIndex /\ IdleDisc /\ IdleDetail /\ IdleMain

FetchFullIndex ==
    /\ q_pc = "start"
    /\ q_out' = get_filings_from_full_index(q_start, q_end, q_master, FALSE)
    /\ q_pc' = "done"
    /\ UNCHANGED <<q_start, q_end, q_master>>
    /\ UNCHANGED <<filterVars, xmlVars, indexVars, discVars, detailVars, mainVars>>

NextQuarter == FetchFullIndex

SpecQuarter == InitQuarter /\ [][NextQuarter]_vars

\* First and last day of a quarter.
QuarterFirstDay(q) == Ordinal(q[1], 3 * q[2] - 2, 1)
QuarterLastDay(q) == Ordinal(q[1], 3 * q[2], DaysInMonth(q[1], 3 * q[2]))

\* The quarters that hold at least one day of [q_start, q_end].
OverlappingQuarters ==
    { q \in (2024..2025) \X (1..4) :
        QuarterFirstDay(q) <= q_end.day /\ q_start.day <= QuarterLastDay(q) }

\* The quarter's master.idx answered 200 and holds a filing inside the range.
QuarterYields(q) ==
    /\ q_master[q].kind = "response" /\ q_master[q].status = 200
    /\ InRange(Strptime(QuarterDate(q))[1], q_start, q_end)

\* C11: for start <= end the quarters requested are exactly those holding a day
\* of [start, end]; each is requested once; and a quarter that fails or answers
\* other than 200 is skipped while every other requested quarter still
\* contributes its filings.
C11_QuarterCoverage ==
    q_pc = "done" =>
        /\ ~q_out.raised
        /\ LET requested == q_out.value.requested
               filings == q_out.value.filings
               yielding == { k \in 1..Len(requested) : QuarterYields(requested[k]) }
           IN  /\ { requested[k] : k \in 1..Len(requested) } = OverlappingQuarters
               /\ \A j, k \in 1..Len(requested) : requested[j] = requested[k] => j = k
               /\ \A k \in yielding :
                     \E j \in 1..Len(filings) :
                         filings[j].date_filed = QuarterDate(requested[k])
               /\ Len(filings) = Cardinality(yielding)

\* A range from the last quarter of 2024 into the second of 2025: the first
\* two requests answer 404 and the third still gives its filing.
C11_Witness ==
    /\ q_pc = "done"
    /\ q_out.value.requested = << <<2024, 4>>, <<2025, 1>>, <<2025, 2>> >>
    /\ q_master[<<2024, 4>>].status = 404
    /\ q_master[<<2025, 1>>].status = 404
    /\ Len(q_out.value.filings) = 1
    /\ q_out.value.filings[1].date_filed = <<"2025-04-01">>

(***************************************************************************)
(* DetailResolver                                                          *)
(***************************************************************************)
\* Runs of digits among the atoms of a filename, with their lengths.
DigitRunLen(a) ==
    CASE a = "1234" -> 4
      [] a = "0001234567" -> 10
      [] a = "24" -> 2
      [] a = "000001" -> 6
      [] a = "000123456724000001" -> 18
      [] OTHER -> 0

IsDigitRun(a) == DigitRunLen(a) > 0

At(text, k) == IF k \in 1..Len(text) THEN text[k] ELSE ""

\* edgar/data/\d+/ at position k of the text
DataPrefixAt(text, k) ==
    /\ At(text, k) = "edgar" /\ At(text, k + 1) = "/"
    /\ At(text, k + 2) = "data" /\ At(text, k + 3) = "/"
    /\ IsDigitRun(At(text, k + 4)) /\ At(text, k + 5) = "/"

\* re.search(r'edgar/data/\d+/(\d{10}-\d{2}-\d{6})', filename) matches at k.
\* (The last run is taken whole: the model's runs after the second dash have
\* six digits.)
DashedAt(text, k) ==
    /\ DataPrefixAt(text, k)
    /\ DigitRunLen(At(text, k + 6)) = 10 /\ At(text, k + 7) = "-"
    /\ DigitRunLen(At(text, k + 8)) = 2 /\ At(text, k + 9) = "-"
    /\ DigitRunLen(At(text, k + 10)) = 6

\* re.search(r'edgar/data/\d+/(\d+)', filename) matches at k.
UndashedAt(text, k) == DataPrefixAt(text, k) /\ IsDigitRun(At(text, k + 6))

Least(S) == CHOOSE k \in S : \A j \in S : k <= j

\* Lines 276-285: group 1 of the first pattern that matches, <<>> for no match.
ExtractAccession(filename) ==
    LET dashed == { k \in 1..Len(filename) : DashedAt(filename, k) }
        undashed == { k \in 1..Len(filename) : UndashedAt(filename, k) }
    IN  IF dashed # {} THEN SubSeq(filename, Least(dashed) + 6, Least(dashed) + 10)
        ELSE IF undashed # {} THEN << filename[Least(undashed) + 6] >>
        ELSE <<>>

IsNotDash(a) == a # "-"

\* accession.replace('-', '')
NoDashes(text) == SelectSeq(text, IsNotDash)

SecGov == <<"https://www.sec.gov">>

\* https://www.sec.gov/Archives/edgar/data/{cik}/{acc_nodash}/
FilingFolder(cik, acc_nodash) ==
    SecGov \o <<"/", "Archives", "/", "edgar", "/", "data", "/">> \o cik
           \o <<"/">> \o acc_nodash \o <<"/">>

IndexUrl(cik, accession) ==
    FilingFolder(cik, NoDashes(accession)) \o accession \o <<"-index.htm">>

DirectUrls(cik, accession) ==
    << FilingFolder(cik, NoDashes(accession)) \o <<"primary_doc.xml">>,
       FilingFolder(cik, NoDashes(accession)) \o <<"formd.xml">> >>

\* Atoms of an href: file names that end in .xml, and path segments that hold
\* "xsl" in some letter case.
IsXmlName(a) == a \in {"primary_doc.xml", "formd.xml", "offering.xml"}
HoldsXsl(a) == a \in {"xslFormDX01", "XSL"}

HrefHoldsXsl(href) == \E k \in 1..Len(href) : HoldsXsl(href[k])
HrefIsXml(href) == href # <<>> /\ IsXmlName(href[Len(href)])

\* Line 316: re.search(r'href="([^"]*(?<!xsl[^/]*)/primary_doc\.xml)"', ...).
\* The look-behind xsl[^/]* has no fixed width, so the re module refuses the
\* pattern with re.error whenever this line runs, whatever the page holds.
SearchPrimaryDoc(page) == Raised

\* The search the pattern is written for: the first href that ends in
\* /primary_doc.xml with no xsl in the segment before it.
SearchPrimaryDocIntended(page) ==
    LET hits == { k \in 1..Len(page) :
                    /\ Len(page[k]) >= 2
                    /\ page[k][Len(page[k])] = "primary_doc.xml"
                    /\ page[k][Len(page[k]) - 1] = "/"
                    /\ ~HoldsXsl(At(page[k], Len(page[k]) - 2)) }
    IN  Returned(IF hits = {} THEN <<>> ELSE << page[Least(hits)] >>)

\* Lines 319-322: the first href ending in .xml with no xsl in it.
FirstPlainXml(page) ==
    LET hits == { k \in 1..Len(page) : HrefIsXml(page[k]) /\ ~HrefHoldsXsl(page[k]) }
    IN  IF hits = {} THEN <<>> ELSE << page[Least(hits)] >>

\* Lines 327-330
ResolveLink(xml_filename, cik, accession) ==
    IF Head(xml_filename) = "/" THEN SecGov \o xml_filename
    ELSE FilingFolder(cik, NoDashes(accession)) \o xml_filename

\* What a call of fetch_form_d_details did: the OfferingRecord (<<>> for None),
\* the URLs it requested in order, and whether an exception left the function.
Resolved(result, requested) ==
    [result |-> result, requested |-> requested, raised |-> FALSE]

\* Lines 303-312: the direct URLs in turn; a response of 200 ends the loop.
RECURSIVE TryDirect(_, _, _, _)
TryDirect(urls, responses, filing, requested) ==
    IF urls = <<>> THEN Resolved(<<>>, requested)
    ELSE LET xml_response == Head(responses) IN
         IF xml_response.kind = "exception"
         THEN TryDirect(Tail(urls), Tail(responses), filing, requested \o <<Head(urls)>>)
         ELSE IF xml_response.status = 200
         THEN Resolved(parse_form_d_xml(xml_response.doc, filing),
                       requested \o <<Head(urls)>>)
         ELSE TryDirect(Tail(urls), Tail(responses), filing, requested \o <<Head(urls)>>)

\* Lines 314-336, given the outcome of the search of line 316.
FromIndexPage(search, page, linked, filing, accession, requested) ==
    IF search.raised THEN Resolved(<<>>, requested)
    ELSE LET xml_match == IF search.value # <<>> THEN search.value
                          ELSE FirstPlainXml(page)
         IN  IF xml_match = <<>> THEN Resolved(<<>>, requested)
             ELSE LET xml_url == ResolveLink(xml_match[1], filing.cik, accession)
                  IN  IF linked.kind = "exception"
                      THEN Resolved(<<>>, requested \o <<xml_url>>)
                      ELSE IF linked.status = 200
                      THEN Resolved(parse_form_d_xml(linked.doc, filing),
                                    requested \o <<xml_url>>)
                      ELSE Resolved(<<>>, requested \o <<xml_url>>)

\* web holds the responses of this filing's URLs: index (the index page),
\* direct (primary_doc.xml and formd.xml) and linked (the document an href of
\* the index page names).
FetchDetailsWith(filing, web, search) ==
    IF filing.filename = <<>> THEN Resolved(<<>>, <<>>)
    ELSE LET accession == ExtractAccession(filing.filename) IN
         IF accession = <<>> THEN Resolved(<<>>, <<>>)
         ELSE LET index_url == IndexUrl(filing.cik, accession) IN
              IF web.index.kind = "exception" THEN Resolved(<<>>, <<index_url>>)
              ELSE IF web.index.status # 200
              THEN TryDirect(DirectUrls(filing.cik, accession), web.direct, filing,
                             <<index_url>>)
              ELSE FromIndexPage(search, web.index.page, web.linked, filing,
                                 accession, <<index_url>>)

\* A plausible slip: the handler of lines 338-339 is missing, so the exception
\* of the index request or of line 316 leaves the function.
fetch_form_d_details_unguarded(filing, web) ==
    LET guarded == FetchDetailsWith(filing, web, SearchPrimaryDoc(web.index.page))
        reached == filing.filename # <<>> /\ ExtractAccession(filing.filename) # <<>>
    IN  IF reached /\ (web.index.kind = "exception"
                       \/ (web.index.status = 200 /\ SearchPrimaryDoc(web.index.page).raised))
        THEN [guarded EXCEPT !.raised = TRUE]
        ELSE guarded

fetch_form_d_details(filing, web) ==
    FetchDetailsWith(filing, web, SearchPrimaryDoc(web.index.page))

\* ---- filings and responses the resolver is tried on ----
Ref(filename) ==
    [ company_name |-> <<"ACME">>, form_type |-> <<"D">>, cik |-> GoodCik,
      date_filed |-> <<"2024-04-01">>, filename |-> filename,
      accession_number |-> IndexAccession(filename) ]

UndashedFilename ==
    <<"edgar", "/", "data", "/", "1234", "/", "000123456724000001", "/",
      "primary_doc.xml">>

DetailFilings ==
    { Ref(GoodFilename), Ref(UndashedFilename), Ref(<<"form_d", ".txt">>), Ref(<<>>) }

Amount(digits) ==
    [ wellformed |-> TRUE, entityName |-> <<"Acme Inc">>, issuerName |-> <<>>,
      totalOfferingAmount |-> digits, indefiniteSecuritiesIncluded |-> <<>>,
      industryGroupType |-> <<"Technology">>, investmentFundType |-> <<>> ]

ThreeMillion == <<"3", "0", "0", "0", "0", "0", "0">>
TenMillion == <<"1", "0", "0", "0", "0", "0", "0", "0">>

DetailDocs ==
    { Amount(ThreeMillion),
      Amount(TenMillion),
      [Amount(<<"0">>) EXCEPT !.indefiniteSecuritiesIncluded = <<"t","r","u","e">>],
      [Amount(ThreeMillion) EXCEPT !.industryGroupType = <<"Pooled Investment Fund">>,
                                   !.investmentFundType = <<"Venture Capital Fund">>],
      [Amount(ThreeMillion) EXCEPT !.wellformed = FALSE] }

DocResponses ==
    { [kind |-> "exception", status |-> 0, doc |-> <<>>],
      [kind |-> "response", status |-> 404, doc |-> <<>>] }
    \cup { [kind |-> "response", status |-> 200, doc |-> d] : d \in DetailDocs }

AbsolutePrimary ==
    <<"/", "Archives", "/", "edgar", "/", "data", "/", "1234", "/",
      "000123456724000001", "/", "primary_doc.xml">>
XslPrimary ==
    <<"/", "Archives", "/", "edgar", "/", "data", "/", "1234", "/",
      "000123456724000001", "/", "xslFormDX01", "/", "primary_doc.xml">>

IndexPages ==
    { <<XslPrimary, AbsolutePrimary>>,
      <<XslPrimary, <<"offering.xml">>>>,
      <<XslPrimary>>,
      << <<"filing.txt">> >> }

IndexResponses ==
    { [kind |-> "exception", status |-> 0, page |-> <<>>],
      [kind |-> "response", status |-> 404, page |-> <<>>],
      [kind |-> "response", status |-> 503, page |-> <<>>] }
    \cup { [kind |-> "response", status |-> 200, page |-> pg] : pg \in IndexPages }

Webs ==
    [ index : IndexResponses,
      direct : [1..2 -> DocResponses],
      linked : DocResponses ]

InitDetail ==
    /\ r_pc = "start"
    /\ r_filing \in DetailFilings
    /\ r_web \in Webs
    /\ r_out = <<>>
    /\ IdleFilter /\ IdleXml /\ IdleIndex /\ IdleDisc /\ IdleMain /\ IdleQuarter

FetchDetails ==
    /\ r_pc = "start"
    /\ r_out' = fetch_form_d_details(r_filing, r_web)
    /\ r_pc' = "done"
    /\ UNCHANGED <<r_filing, r_web>>
    /\ UNCHANGED <<filterVars, xmlVars, indexVars, discVars, mainVars, quarterVars>>

NextDetail == FetchDetails

SpecDetail == InitDetail /\ [][NextDetail]_vars

\* The filing's accession number can be read from its filename.
Resolvable == r_filing.filename # <<>> /\ ExtractAccession(r_filing.filename) # <<>>

TheAccession == ExtractAccession(r_filing.filename)

\* The link steps 4 asks for: a primary_doc.xml outside an xsl path, else the
\* first .xml link without xsl.
WantedLink ==
    IF SearchPrimaryDocIntended(r_web.index.page).value # <<>>
    THEN SearchPrimaryDocIntended(r_web.index.page).value
    ELSE FirstPlainXml(r_web.index.page)

\* C9: when the index page answers 200 and holds a link to a non-stylesheet XML
\* document, that link is resolved and fetched, and when that fetch answers 200
\* the result is parse_form_d_xml of its body.
C9_IndexPageLinkFollowed ==
    ( /\ r_pc = "done" /\ Resolvable
      /\ r_web.index.kind = "response" /\ r_web.index.status = 200
      /\ WantedLink # <<>>
      /\ r_web.linked.kind = "response" /\ r_web.linked.status = 200 ) =>
        /\ r_out.requested =
              << IndexUrl(r_filing.cik, TheAccession),
                 ResolveLink(WantedLink[1], r_filing.cik, TheAccession) >>
        /\ r_out.result = parse_form_d_xml(r_web.linked.doc, r_filing)

IndexFetchFailed ==
    r_web.index.kind = "exception" \/ r_web.index.status # 200

Answered(response) == response.kind = "response" /\ response.status = 200

\* C10: when the index-page fetch does not succeed (a status other than 200 or a
\* failed request), primary_doc.xml and then formd.xml are requested, each at
\* most once and formd.xml only when primary_doc.xml returned no content, and
\* the first that returns content is parsed; the filing has no detail only when
\* neither returns content.
C10_DirectUrlFallback ==
    (r_pc = "done" /\ Resolvable /\ IndexFetchFailed) =>
        LET direct == DirectUrls(r_filing.cik, TheAccession)
            index_url == IndexUrl(r_filing.cik, TheAccession)
        IN  /\ Answered(r_web.direct[1]) =>
                  /\ r_out.requested = <<index_url, direct[1]>>
                  /\ r_out.result = parse_form_d_xml(r_web.direct[1].doc, r_filing)
            /\ (~Answered(r_web.direct[1]) /\ Answered(r_web.direct[2])) =>
                  /\ r_out.requested = <<index_url, direct[1], direct[2]>>
                  /\ r_out.result = parse_form_d_xml(r_web.direct[2].doc, r_filing)
            /\ (~Answered(r_web.direct[1]) /\ ~Answered(r_web.direct[2])) =>
                  /\ r_out.requested = <<index_url, direct[1], direct[2]>>
                  /\ r_out.result = <<>>

\* C12: for a filing whose filename follows a recognized convention, the
\* accession_number of the OfferingRecord names the same filing as the accession
\* number fetch_form_d_details read from the filename (equal once the dashes
\* are removed), and is never the CIK segment of the path.
C12_RecordAccessionIsFilings ==
    (r_pc = "done" /\ Resolvable /\ r_out.result # <<>>) =>
        /\ NoDashes(r_out.result[1].accession_number) = NoDashes(TheAccession)
        /\ r_out.result[1].accession_number # r_filing.cik

(***************************************************************************)
(* Publisher                                                               *)
(***************************************************************************)
UNCONFIGURED_URL == "YOUR_CLAY_WEBHOOK_URL"

\* What a call of post_to_clay did: the boolean it returns and the bodies it
\* POSTed to the webhook.
Posted(ok, bodies) == [ok |-> ok, bodies |-> bodies]

WebhookAccepts(response) ==
    response.kind = "response" /\ response.status \in {200, 201, 202}

\* A plausible variant: the batch is POSTed whatever it holds.
post_to_clay_always_posts(filings, webhook_url, response) ==
    Posted(WebhookAccepts(response), << [records |-> filings] >>)

post_to_clay(filings, webhook_url, response) ==
    IF filings = <<>> THEN Posted(TRUE, <<>>)
    ELSE IF webhook_url = UNCONFIGURED_URL THEN Posted(FALSE, <<>>)
    ELSE IF response.kind = "exception" THEN Posted(FALSE, << [records |-> filings] >>)
    ELSE IF response.status \in {200, 201, 202}
         THEN Posted(TRUE, << [records |-> filings] >>)
         ELSE Posted(FALSE, << [records |-> filings] >>)

WebhookResponses ==
    { [kind |-> "exception", status |-> 0] }
    \cup { [kind |-> "response", status |-> c] : c \in {200, 201, 202, 400, 500} }

(***************************************************************************)
(* Pipeline Driver                                                         *)
(***************************************************************************)
Web(index, primary, formd, linked) ==
    [index |-> index, direct |-> <<primary, formd>>, linked |-> linked]

NotFound == [kind |-> "response", status |-> 404, doc |-> <<>>]
Failed == [kind |-> "exception", status |-> 0, doc |-> <<>>]
Found(d) == [kind |-> "response", status |-> 200, doc |-> d]

\* The responses a filing of a run can meet: each way its resolution can end.
MainWebs ==
    { Web([kind |-> "exception", status |-> 0, page |-> <<>>],
          Found(Amount(ThreeMillion)), NotFound, NotFound),
      Web([kind |-> "response", status |-> 404, page |-> <<>>],
          NotFound, NotFound, NotFound),
      Web([kind |-> "response", status |-> 404, page |-> <<>>],
          Failed, Found(Amount(ThreeMillion)), NotFound),
      Web([kind |-> "response", status |-> 200, page |-> <<XslPrimary, AbsolutePrimary>>],
          NotFound, NotFound, Found(Amount(ThreeMillion))) }
    \cup { Web([kind |-> "response", status |-> 404, page |-> <<>>],
               Found(d), NotFound, NotFound) : d \in DetailDocs }

InitMain ==
    /\ m_pc = "start"
    /\ m_url \in {UNCONFIGURED_URL, "https://api.clay.com/hook"}
    /\ raw_filings = <<>> /\ m_i = 0
    /\ detailed_filings = <<>> /\ filtered_filings = <<>> /\ success = FALSE
    /\ artifact = <<>> /\ m_posts = <<>> /\ m_returned = 0 /\ m_rejected = FALSE
    /\ IdleFilter /\ IdleXml /\ IdleIndex /\ IdleDisc /\ IdleDetail /\ IdleQuarter

others == <<filterVars, xmlVars, indexVars, discVars, quarterVars, detailVars>>

\* Line 509: raw_filings = get_recent_form_d_filings(days_back=LOOKBACK_DAYS)
MainDiscover ==
    /\ m_pc = "start"
    /\ \E now \in DiscNows, efts \in EftsResponses,
          master \in [ModelQuarters -> MasterResponses], fault \in BOOLEAN :
          LET found == get_recent_form_d_filings(now, LOOKBACK_DAYS, efts, master, fault)
          IN  IF found.raised
              THEN m_pc' = "aborted" /\ UNCHANGED raw_filings
              ELSE m_pc' = "enrich" /\ raw_filings' = found.filings
    /\ UNCHANGED <<m_url, m_i, detailed_filings, filtered_filings, success, artifact,
                   m_posts, m_returned, m_rejected>>
    /\ UNCHANGED others

\* Lines 515-519: one turn of the loop over raw_filings.
MainEnrich ==
    /\ m_pc = "enrich"
    /\ m_i < Len(raw_filings)
    /\ \E web \in MainWebs :
          LET details == fetch_form_d_details(raw_filings[m_i + 1], web) IN
          IF details.raised
          THEN m_pc' = "aborted" /\ UNCHANGED <<m_i, detailed_filings, m_returned>>
          ELSE /\ m_pc' = "enrich"
               /\ m_i' = m_i + 1
               /\ detailed_filings' = detailed_filings \o details.result
               /\ m_returned' = m_returned + (IF details.result # <<>> THEN 1 ELSE 0)
    /\ UNCHANGED <<m_url, raw_filings, filtered_filings, success, artifact, m_posts,
                   m_rejected>>
    /\ UNCHANGED others

\* Lines 529-533, once the loop has ended.
MainFilter ==
    /\ m_pc = "enrich"
    /\ m_i = Len(raw_filings)
    /\ filtered_filings' =
          filter_by_funding_range(detailed_filings, MIN_OFFERING_AMOUNT,
                                  MAX_OFFERING_AMOUNT)
    /\ m_pc' = "post"
    /\ UNCHANGED <<m_url, raw_filings, m_i, detailed_filings, success, artifact,
                   m_posts, m_returned, m_rejected>>
    /\ UNCHANGED others

\* Line 538: success = post_to_clay(filtered_filings, CLAY_WEBHOOK_URL)
MainPost ==
    /\ m_pc = "post"
    /\ \E response \in WebhookResponses :
          LET posted == post_to_clay(filtered_filings, m_url, response) IN
          /\ success' = posted.ok
          /\ m_posts' = m_posts \o posted.bodies
          /\ m_rejected' = (posted.bodies # <<>> /\ ~WebhookAccepts(response))
    /\ m_pc' = "artifact"
    /\ UNCHANGED <<m_url, raw_filings, m_i, detailed_filings, filtered_filings,
                   artifact, m_returned>>
    /\ UNCHANGED others

\* Lines 541-551: the artifact is written.
MainWriteArtifact ==
    /\ m_pc = "artifact"
    /\ artifact' = << [ lookback_days |-> LOOKBACK_DAYS,
                        funding_range |-> [min |-> MIN_OFFERING_AMOUNT,
                                           max |-> MAX_OFFERING_AMOUNT],
                        total_in_index |-> Len(raw_filings),
                        total_parsed |-> Len(detailed_filings),
                        total_filtered |-> Len(filtered_filings),
                        results |-> filtered_filings ] >>
    /\ m_pc' = "done"
    /\ UNCHANGED <<m_url, raw_filings, m_i, detailed_filings, filtered_filings,
                   success, m_posts, m_returned, m_rejected>>
    /\ UNCHANGED others

\* Line 542: open() fails; the exception leaves main.
MainArtifactFails ==
    /\ m_pc = "artifact"
    /\ m_pc' = "fatal"
    /\ UNCHANGED <<m_url, raw_filings, m_i, detailed_filings, filtered_filings,
                   success, artifact, m_posts, m_returned, m_rejected>>
    /\ UNCHANGED others

Next ==
    \/ MainDiscover
    \/ MainEnrich
    \/ MainFilter
    \/ MainPost
    \/ MainWriteArtifact
    \/ MainArtifactFails

Spec == InitMain /\ [][Next]_vars

PastLoop == m_pc \in {"post", "artifact", "done", "fatal"}
PastPost == m_pc \in {"artifact", "done", "fatal"}

C4_ExactlyOnePost ==
    m_pc = "done" => Len(m_posts) = 1

\* C4 amended: a run POSTs at most once; it POSTs once, one object whose records
\* array is the filtered list, when that list is not empty and the webhook URL
\* is configured, and it does not POST at all when the list is empty or the URL
\* is the unconfigured placeholder.
C4_OnePostUnlessEmpty ==
    /\ Len(m_posts) <= 1
    /\ ~PastPost => m_posts = <<>>
    /\ PastPost =>
          IF filtered_filings # <<>> /\ m_url # UNCONFIGURED_URL
          THEN m_posts = << [records |-> filtered_filings] >>
          ELSE m_posts = <<>>

\* A finished run with candidates and nothing in range: no POST, reported as
\* delivered.
C4_Witness ==
    /\ m_pc = "done"
    /\ m_url # UNCONFIGURED_URL
    /\ detailed_filings # <<>>
    /\ filtered_filings = <<>>
    /\ m_posts = <<>>
    /\ success

====
